---- MODULE Spec2Model ----
(***************************************************************************)
(* A model of server/ml_service.py: the one-shot anomaly-detection process *)
(* (commands "analyze" and "explain") and the pure helpers of              *)
(* MLAnomalyDetector.                                                      *)
(*                                                                         *)
(* Numbers.  A Python float is a record [nan, v]: v counts FUnit-ths       *)
(* (FUnit = 10^Decimals), so "$1,234.56" is the integer 123456 when        *)
(* Decimals = 2.  NaN is [nan |-> TRUE, v |-> 0].  Scaled values count     *)
(* SUnit-ths, detector scores count ScoreUnit-ths.                         *)
(*                                                                         *)
(* Text.  A JSON string is a sequence of one-character strings.            *)
(*                                                                         *)
(* External libraries (pandas, scikit-learn, LIME) are modelled at their   *)
(* documented contract; what they compute from the data (detector scores,  *)
(* LIME attributions) is a nondeterministic choice from bounded sets.      *)
(***************************************************************************)
EXTENDS Integers, Sequences, FiniteSets, TLC

VARIABLES
    pc,           \* position of the process in main()
    argv,         \* the command argument: "none", "analyze", "explain", "other"
    stdin,        \* the document on standard input
    input,        \* input_data.get('data') as read, before the 100-record cap
    data,         \* main's `data` (after the cap); detector.data is its DataFrame
    req,          \* main's parsed locals: parameters, record_index, style
    X,            \* X_original: the feature matrix
    scaled_data,  \* detector.scaled_data
    iso,          \* detector.iso_forest and what fit_predict/decision_function gave
    lof,          \* detector.lof and what fit_predict gave
    lime,         \* detector.lime_explainer(_raw) and detector.feature_stats
    explanation,  \* explain_anomaly's locals X_original and feature_contributions
    transformed,  \* the value returned by _transform_feature_names
    log,          \* calls made on the scaler, the detectors and the explainers
    stdout,       \* JSON documents printed
    exit_code     \* process exit status; -1 while running

vars == <<pc, argv, stdin, input, data, req, X, scaled_data, iso, lof, lime,
          explanation, transformed, log, stdout, exit_code>>

(***************************************************************************)
(* Bounds of the model.                                                    *)
(***************************************************************************)
MaxStrLen == 3        \* longest JSON string drawn for a field
MaxRecords == 3       \* longest short request drawn for the flows
CapMargin == 2        \* long requests have RECORD_CAP-CapMargin .. RECORD_CAP+CapMargin records

(***************************************************************************)
(* Program constants.                                                      *)
(***************************************************************************)
RECORD_CAP == 100     \* "Limit data for prototype (max 100 records)"

FEATURES == <<"taxableIncome", "salary", "revenue",
              "amountTaxable", "bubblegumTax", "confectionarySalesTaxPercent">>

NumFeatures == Len(FEATURES)

FeatureSet == {FEATURES[j] : j \in 1..NumFeatures}

IdentityKeys == {"id", "corpName", "corpId"}

Keys == FeatureSet \cup IdentityKeys

(***************************************************************************)
(* Arithmetic helpers.                                                     *)
(***************************************************************************)
Abs(n) == IF n < 0 THEN -n ELSE n

Sgn(n) == IF n < 0 THEN -1 ELSE IF n > 0 THEN 1 ELSE 0

Min(a, b) == IF a <= b THEN a ELSE b

RECURSIVE Pow10(_)
Pow10(k) == IF k = 0 THEN 1 ELSE 10 * Pow10(k - 1)

RECURSIVE Gcd(_, _)
Gcd(a, b) == IF b = 0 THEN a ELSE Gcd(b, a % b)

RECURSIVE IsqrtIn(_, _, _)
IsqrtIn(n, lo, hi) ==
    \* the largest r in lo..hi with r*r <= n, by bisection
    IF lo >= hi THEN lo
    ELSE LET mid == (lo + hi + 1) \div 2
         IN  IF mid * mid <= n THEN IsqrtIn(n, mid, hi) ELSE IsqrtIn(n, lo, mid - 1)

Isqrt(n) == IsqrtIn(n, 0, Min(n, 46340))

\* The recursions over a sequence halve it, so that their depth stays
\* logarithmic in its length.
RECURSIVE SumRange(_, _, _)
SumRange(s, lo, hi) ==
    IF lo > hi THEN 0
    ELSE IF lo = hi THEN s[lo]
    ELSE LET mid == (lo + hi) \div 2
         IN  SumRange(s, lo, mid) + SumRange(s, mid + 1, hi)

SumSeq(s) == SumRange(s, 1, Len(s))

RECURSIVE FilterRange(_, _, _, _)
FilterRange(s, keep, lo, hi) ==
    IF lo > hi THEN <<>>
    ELSE IF lo = hi THEN (IF keep[lo] THEN <<s[lo]>> ELSE <<>>)
    ELSE LET mid == (lo + hi) \div 2
         IN  FilterRange(s, keep, lo, mid) \o FilterRange(s, keep, mid + 1, hi)

\* the subsequence of s at the positions i with keep[i]
FilterSeq(s, keep) == FilterRange(s, keep, 1, Len(s))

(***************************************************************************)
(* Floats and raw JSON values.                                             *)
(***************************************************************************)
Decimals == MaxStrLen - 1

FUnit == Pow10(Decimals)

F(v) == [nan |-> FALSE, v |-> v]

NaN == [nan |-> TRUE, v |-> 0]

Chars == {"$", ",", "1", ".", "-", "x"}

Digits == {"0", "1", "2", "3", "4", "5", "6", "7", "8", "9"}

DigitVal(c) ==
    CASE c = "0" -> 0 [] c = "1" -> 1 [] c = "2" -> 2 [] c = "3" -> 3 [] c = "4" -> 4
      [] c = "5" -> 5 [] c = "6" -> 6 [] c = "7" -> 7 [] c = "8" -> 8 [] c = "9" -> 9

\* A raw JSON value of a record field.  t is the JSON type; "absent" is a
\* key the record does not have.
Absent == [t |-> "absent", n |-> 0, s |-> <<>>]

Null == [t |-> "none", n |-> 0, s |-> <<>>]

Str(s) == [t |-> "str", n |-> 0, s |-> s]

Num(v) == [t |-> "num", n |-> v, s |-> <<>>]

JsonList == [t |-> "list", n |-> 0, s |-> <<>>]

\* What pandas puts in a cell that has no value in a numeric or ragged column.
CellNaN == [t |-> "nan", n |-> 0, s |-> <<>>]


(***************************************************************************)
(* Python's float(str) on the alphabet of the model: an optional sign,     *)
(* digits with at most one decimal point and at least one digit.  Anything *)
(* else raises ValueError (ok = FALSE).                                    *)
(***************************************************************************)
RECURSIVE DigitsValue(_)
DigitsValue(ds) ==
    IF ds = <<>> THEN 0
    ELSE 10 * DigitsValue(SubSeq(ds, 1, Len(ds) - 1)) + DigitVal(ds[Len(ds)])

ParseFloat(s) ==
    LET neg == s # <<>> /\ s[1] = "-"
        body == IF neg THEN Tail(s) ELSE s
        dots == {i \in 1..Len(body) : body[i] = "."}
        wellFormed == /\ \A i \in 1..Len(body) : body[i] \in Digits \cup {"."}
                      /\ Cardinality(dots) <= 1
                      /\ \E i \in 1..Len(body) : body[i] \in Digits
    IN  IF ~wellFormed THEN [ok |-> FALSE, v |-> 0]
        ELSE LET dot == IF dots = {} THEN Len(body) + 1 ELSE CHOOSE i \in dots : TRUE
                 whole == SubSeq(body, 1, dot - 1)
                 frac == SubSeq(body, dot + 1, Len(body))
                 fracUnits == IF Len(frac) <= Decimals
                              THEN DigitsValue(frac) * Pow10(Decimals - Len(frac))
                              ELSE DigitsValue(frac) \div Pow10(Len(frac) - Decimals)
                 mag == DigitsValue(whole) * FUnit + fracUnits
             IN  [ok |-> TRUE, v |-> IF neg THEN -mag ELSE mag]

\* value.replace('$', '').replace(',', '')
RECURSIVE RemoveCurrency(_)
RemoveCurrency(s) ==
    IF s = <<>> THEN <<>>
    ELSE IF Head(s) \in {"$", ","} THEN RemoveCurrency(Tail(s))
         ELSE <<Head(s)>> \o RemoveCurrency(Tail(s))

(***************************************************************************)
(* pandas: DataFrame(raw_data) of a list of dicts, and row.get(feature).   *)
(* A column exists when some record has the key.  A record without the key *)
(* holds NaN there; a None holds NaN when the column is otherwise numeric  *)
(* (float64) and stays None in an object column.                           *)
(***************************************************************************)
ColumnExists(d, k) == \E i \in 1..Len(d) : d[i][k].t # "absent"

ColumnNumeric(d, k) ==
    /\ \E i \in 1..Len(d) : d[i][k].t = "num"
    /\ \A i \in 1..Len(d) : d[i][k].t \in {"num", "none", "absent"}

Cell(d, i, k) ==
    LET raw == d[i][k]
    IN  IF raw.t = "absent" THEN CellNaN
        ELSE IF raw.t = "none" /\ ColumnNumeric(d, k) THEN CellNaN
        ELSE raw

RowGet(d, i, k) == IF ColumnExists(d, k) THEN Cell(d, i, k) ELSE Null

(***************************************************************************)
(* preprocess_data: the Value Normalizer (one value, one row, all rows).   *)
(***************************************************************************)
NormalizeValue(value) ==
    IF value.t = "none" \/ (value.t = "str" /\ value.s = <<>>) THEN F(0)
    ELSE IF value.t = "str"
         THEN LET p == ParseFloat(RemoveCurrency(value.s))
              IN  IF p.ok THEN F(p.v) ELSE F(0)
    ELSE IF value.t = "num" THEN F(value.n)
    ELSE IF value.t = "nan" THEN NaN
    ELSE F(0)

FeatureRow(d, i) == [j \in 1..NumFeatures |-> NormalizeValue(RowGet(d, i, FEATURES[j]))]

FeatureMatrix(d) == [i \in 1..Len(d) |-> FeatureRow(d, i)]

(***************************************************************************)
(* StandardScaler.fit_transform.  NaN entries are left out of the column   *)
(* statistics and stay NaN; a zero-variance column scales to zero.  With   *)
(* d_i = n*x_i - sum(x) the scaled value is d_i * sqrt(n / sum(d^2)); the  *)
(* d_i are divided by their gcd first to keep the integers small.          *)
(***************************************************************************)
SUnit == Pow10(1)

RECURSIVE GcdRange(_, _, _)
GcdRange(s, lo, hi) ==
    IF lo > hi THEN 0
    ELSE IF lo = hi THEN Abs(s[lo])
    ELSE LET mid == (lo + hi) \div 2
         IN  Gcd(GcdRange(s, lo, mid), GcdRange(s, mid + 1, hi))

GcdSeq(s) == GcdRange(s, 1, Len(s))

ScaleColumn(col) ==
    LET n == Len(col)
        present == FilterSeq([i \in 1..n |-> col[i].v], [i \in 1..n |-> ~col[i].nan])
        m == Len(present)
        total == SumSeq(present)
        g == GcdSeq([i \in 1..m |-> m * present[i] - total])
        dev(i) == IF g = 0 THEN 0 ELSE (m * col[i].v - total) \div g
        q == SumSeq([i \in 1..m |-> ((m * present[i] - total) \div (IF g = 0 THEN 1 ELSE g))
                                    * ((m * present[i] - total) \div (IF g = 0 THEN 1 ELSE g))])
    IN  [i \in 1..n |->
            IF col[i].nan THEN NaN
            ELSE IF q = 0 THEN F(0)
            ELSE F(Sgn(dev(i)) * Isqrt((dev(i) * dev(i) * m * SUnit * SUnit) \div q))]

FitTransform(M) ==
    LET cols == [j \in 1..NumFeatures |-> ScaleColumn([i \in 1..Len(M) |-> M[i][j]])]
    IN  [i \in 1..Len(M) |-> [j \in 1..NumFeatures |-> cols[j][i]]]

HasNaN(M) == \E i \in 1..Len(M) : \E j \in 1..NumFeatures : M[i][j].nan

(***************************************************************************)
(* Defaults of the request envelope.  A missing key is the empty set, a    *)
(* given one a singleton.                                                  *)
(***************************************************************************)
ScoreUnit == Pow10(4)

DEFAULT_CONTAMINATION == 10   \* 0.1, in percent

DEFAULT_N_NEIGHBORS == 20

DEFAULT_THRESHOLD == 5000     \* 0.5 in ScoreUnit-ths

DEFAULT_ANOMALY_SCORE == 5000 \* 0.5 in ScoreUnit-ths

Get(field, default) == IF field = {} THEN default ELSE CHOOSE v \in field : TRUE

NoReq == [contamination |-> 0, n_neighbors |-> 0, anomaly_threshold |-> 0,
          record_index |-> 0, anomaly_score |-> 0, explanation_style |-> "-"]

NoDetector == [fitted |-> FALSE, anomalies |-> <<>>, scores |-> <<>>]

NoLime == [ready |-> FALSE, stats |-> <<>>]

NoExplanation == [X_original |-> <<>>, feature_contributions |-> <<>>]

Failure(msg) == [success |-> FALSE, error |-> msg]

\* The except clause of a command flow: print the failure envelope; main
\* returns and the interpreter exits 0.
Caught(msg) ==
    /\ stdout' = Append(stdout, Failure(msg))
    /\ exit_code' = 0
    /\ pc' = "exited"

\* An exception outside the try block: a traceback on standard error,
\* nothing on standard output, exit status 1.
Uncaught ==
    /\ exit_code' = 1
    /\ pc' = "exited"
    /\ UNCHANGED stdout

(***************************************************************************)
(* main without a command, and with a command it does not know.            *)
(***************************************************************************)
NoCommand ==
    /\ pc = "start"
    /\ argv = "none"
    /\ stdout' = Append(stdout, [error |-> "No command provided"])
    /\ exit_code' = 1
    /\ pc' = "exited"
    /\ UNCHANGED <<argv, stdin, input, data, req, X, scaled_data, iso, lof, lime,
                   explanation, transformed, log>>

UnknownCommand ==
    /\ pc = "start"
    /\ argv = "other"
    /\ stdout' = Append(stdout, [error |-> "Unknown command"])
    /\ exit_code' = 0
    /\ pc' = "exited"
    /\ UNCHANGED <<argv, stdin, input, data, req, X, scaled_data, iso, lof, lime,
                   explanation, transformed, log>>

(***************************************************************************)
(* main, command "analyze": read the request and cap the data.             *)
(***************************************************************************)
CapDataOffByOne(d) == IF Len(d) > RECORD_CAP THEN SubSeq(d, 1, RECORD_CAP + 1) ELSE d

CapData(d) == IF Len(d) > RECORD_CAP THEN SubSeq(d, 1, RECORD_CAP) ELSE d

AnalyzeRead ==
    /\ pc = "start"
    /\ argv = "analyze"
    /\ IF stdin.kind # "object"
       THEN /\ Uncaught
            /\ UNCHANGED <<input, data, req>>
       ELSE /\ input' = stdin.doc.data
            /\ data' = CapData(stdin.doc.data)
            /\ req' = [NoReq EXCEPT
                        !.contamination = Get(stdin.doc.contamination, DEFAULT_CONTAMINATION),
                        !.n_neighbors = Get(stdin.doc.n_neighbors, DEFAULT_N_NEIGHBORS),
                        !.anomaly_threshold = Get(stdin.doc.anomaly_threshold, DEFAULT_THRESHOLD)]
            /\ pc' = "preprocess"
            /\ UNCHANGED <<stdout, exit_code>>
    /\ UNCHANGED <<argv, stdin, X, scaled_data, iso, lof, lime, explanation, transformed, log>>

(***************************************************************************)
(* detector.preprocess_data(data), inside the try block of either flow.    *)
(* np.array([]) of an empty request is one-dimensional and fit_transform   *)
(* raises on it.                                                           *)
(***************************************************************************)
Preprocess ==
    /\ pc = "preprocess"
    /\ log' = Append(log, "scaler.fit_transform")
    /\ IF data = <<>>
       THEN /\ Caught("Expected 2D array, got 1D array instead")
            /\ UNCHANGED <<X, scaled_data>>
       ELSE /\ X' = FeatureMatrix(data)
            /\ scaled_data' = FitTransform(FeatureMatrix(data))
            /\ pc' = "iso"
            /\ UNCHANGED <<stdout, exit_code>>
    /\ UNCHANGED <<argv, stdin, input, data, req, iso, lof, lime, explanation, transformed>>

(***************************************************************************)
(* list.sort(key=..., reverse=True): stable, highest key first.            *)
(***************************************************************************)
\* key[i] is the sort key of s[i].
StableSortDesc(s, key) ==
    LET place == [i \in 1..Len(s) |->
                    1 + Cardinality({j \in 1..Len(s) :
                                        \/ key[j] > key[i]
                                        \/ key[j] = key[i] /\ j < i})]
    IN  [k \in 1..Len(s) |-> s[CHOOSE i \in 1..Len(s) : place[i] = k]]

(***************************************************************************)
(* numpy.percentile (linear interpolation between order statistics).       *)
(***************************************************************************)
\* sorted(vals)[k]: the value with fewer than k values below it and at
\* least k values not above it.
OrderStat(vals, k) ==
    LET at == CHOOSE i \in 1..Len(vals) :
                  /\ Cardinality({j \in 1..Len(vals) : vals[j] < vals[i]}) < k
                  /\ k <= Cardinality({j \in 1..Len(vals) : vals[j] <= vals[i]})
    IN  vals[at]

\* 100 * percentile(vals, q): exact for integer vals.
Percentile100(vals, q) ==
    LET h == q * (Len(vals) - 1)
        lo == h \div 100
        r == h % 100
    IN  IF r = 0 THEN 100 * OrderStat(vals, lo + 1)
        ELSE 100 * OrderStat(vals, lo + 1)
             + (OrderStat(vals, lo + 2) - OrderStat(vals, lo + 1)) * r

Percentile(vals, q) == Percentile100(vals, q) \div 100

(***************************************************************************)
(* scikit-learn detectors.  What the forests and the neighbourhoods score  *)
(* is outside the program: the raw scores are drawn, two levels per        *)
(* detector, the lower one on a set of rows.  The flags follow from them   *)
(* as scikit-learn computes them: offset_ is the contamination percentile  *)
(* of the raw scores and a row is an outlier when it lies below offset_.   *)
(***************************************************************************)
ISO_LOW == -6 * (ScoreUnit \div 10)      \* score_samples of an isolated row, -0.6

ISO_HIGH == -4 * (ScoreUnit \div 10)     \* score_samples of an ordinary row, -0.4

LOF_LOW == -11 * (ScoreUnit \div 10)     \* negative_outlier_factor_ of a sparse row, -1.1

LOF_HIGH == -10 * (ScoreUnit \div 10)    \* negative_outlier_factor_ of a dense row, -1.0

\* The rows a detector may single out: every row of a short request, the
\* first and the last of a long one.
SpecialRows(n) == IF n <= MaxRecords THEN 1..n ELSE {1, n}

\* A detector scores equal rows equally: a set of low rows holds, with a
\* row, every row equal to it.
LowRowChoices(M) ==
    {{i \in 1..Len(M) : \E j \in S : M[i] = M[j]} : S \in SUBSET SpecialRows(Len(M))}

TwoLevel(n, lowRows, low, high) == [i \in 1..n |-> IF i \in lowRows THEN low ELSE high]

ContaminationValid(c) == c > 0 /\ c <= 50

\* IsolationForest.fit_predict and decision_function on the scaled data.
IsolationForestRun(raw, contamination) ==
    LET offset == Percentile(raw, contamination)
        scores == [i \in 1..Len(raw) |-> raw[i] - offset]
    IN  [fitted |-> TRUE,
         anomalies |-> [i \in 1..Len(raw) |-> IF scores[i] < 0 THEN 1 ELSE 0],
         scores |-> scores]

\* LocalOutlierFactor.fit_predict and negative_outlier_factor_.
LocalOutlierFactorRun(raw, contamination) ==
    LET offset == Percentile(raw, contamination)
    IN  [fitted |-> TRUE,
         anomalies |-> [i \in 1..Len(raw) |-> IF raw[i] < offset THEN 1 ELSE 0],
         scores |-> raw]

RunIsolationForest ==
    /\ pc = "iso"
    /\ log' = Append(log, "iso.fit")
    /\ IF ~ContaminationValid(req.contamination)
       THEN /\ Caught("The 'contamination' parameter of IsolationForest is invalid")
            /\ iso' = [iso EXCEPT !.fitted = TRUE]
       ELSE IF HasNaN(scaled_data)
       THEN /\ Caught("Input X contains NaN")
            /\ iso' = [iso EXCEPT !.fitted = TRUE]
       ELSE /\ \E lowRows \in LowRowChoices(scaled_data) :
                 iso' = IsolationForestRun(
                            TwoLevel(Len(scaled_data), lowRows, ISO_LOW, ISO_HIGH),
                            req.contamination)
            /\ pc' = IF argv = "analyze" THEN "lof" ELSE "lime"
            /\ UNCHANGED <<stdout, exit_code>>
    /\ UNCHANGED <<argv, stdin, input, data, req, X, scaled_data, lof, lime, explanation, transformed>>

\* With one sample the neighbour query asks for more neighbours than there
\* are samples and raises.
RunLocalOutlierFactor ==
    /\ pc = "lof"
    /\ log' = Append(log, "lof.fit")
    /\ IF Len(scaled_data) < 2
       THEN /\ Caught("Expected n_neighbors <= n_samples_fit")
            /\ lof' = [lof EXCEPT !.fitted = TRUE]
       ELSE /\ \E lowRows \in LowRowChoices(scaled_data) :
                 lof' = LocalOutlierFactorRun(
                            TwoLevel(Len(scaled_data), lowRows, LOF_LOW, LOF_HIGH),
                            req.contamination)
            /\ pc' = "lime"
            /\ UNCHANGED <<stdout, exit_code>>
    /\ UNCHANGED <<argv, stdin, input, data, req, X, scaled_data, iso, lime, explanation, transformed>>

(***************************************************************************)
(* setup_lime_explainer: the two explainers and the Distribution Profile.  *)
(* mean is the pair <<sum, n>>; std counts FUnit-ths; the cut points are   *)
(* kept 100-fold (100 * percentile), which is exact.                       *)
(***************************************************************************)
StdOf(vals) ==
    LET n == Len(vals)
        total == SumSeq(vals)
        g == GcdSeq([i \in 1..n |-> n * vals[i] - total])
        q == SumSeq([i \in 1..n |-> ((n * vals[i] - total) \div (IF g = 0 THEN 1 ELSE g))
                                    * ((n * vals[i] - total) \div (IF g = 0 THEN 1 ELSE g))])
        \* two more digits of the root as long as the product fits 32 bits
        digits == IF q < 200000 THEN 100 ELSE 1
    IN  \* sqrt(sum(d^2) / n^3) with d = g * d'
        (g * Isqrt((q * digits * digits) \div (n * n * n))) \div digits

FeatureStats(M) ==
    [j \in 1..NumFeatures |->
        LET values == [i \in 1..Len(M) |-> M[i][j].v]
        IN  [mean |-> <<SumSeq(values), Len(values)>>,
             std |-> StdOf(values),
             quartiles |-> <<Percentile100(values, 25), Percentile100(values, 50),
                             Percentile100(values, 75)>>,
             percentiles |-> <<Percentile100(values, 10), Percentile100(values, 25),
                               Percentile100(values, 50), Percentile100(values, 75),
                               Percentile100(values, 90), Percentile100(values, 95),
                               Percentile100(values, 99)>>]]

SetupLime ==
    /\ pc = "lime"
    /\ lime' = [ready |-> TRUE, stats |-> FeatureStats(X)]
    /\ log' = Append(log, "lime.setup")
    /\ pc' = IF argv = "analyze" THEN "combine" ELSE "explain"
    /\ UNCHANGED <<argv, stdin, input, data, req, X, scaled_data, iso, lof, explanation, transformed,
                   stdout, exit_code>>

(***************************************************************************)
(* calculate_feature_importance.  A weight is the fraction <<num, den>>.   *)
(* The group means are sumF/nF and sumU/nU, so |meanF - meanU| is          *)
(* |sumF*nU - sumU*nF| over nF*nU for every feature.                       *)
(***************************************************************************)
EmptyMap == [f \in {} |-> <<0, 1>>]

ColumnSum(M, rows, j) == SumSeq([i \in 1..Len(M) |-> IF i \in rows THEN M[i][j].v ELSE 0])

NormalizeSkipped(importance, denominator) ==
    [j \in 1..NumFeatures |-> <<importance[j], denominator>>]

Normalize(importance, denominator) ==
    LET total == SumSeq(importance)
    IN  IF total > 0 THEN [j \in 1..NumFeatures |-> <<importance[j], total>>]
        ELSE [j \in 1..NumFeatures |-> <<importance[j], denominator>>]

calculate_feature_importance(anomalies, M) ==
    LET anomaly_indices == {i \in 1..Len(anomalies) : anomalies[i] = 1}
        normal_indices == {i \in 1..Len(anomalies) : anomalies[i] = 0}
        nF == Cardinality(anomaly_indices)
        nU == Cardinality(normal_indices)
        importance == [j \in 1..NumFeatures |->
                          Abs(ColumnSum(M, anomaly_indices, j) * nU
                              - ColumnSum(M, normal_indices, j) * nF)]
        weights == Normalize(importance, nF * nU)
    IN  IF Len(anomalies) = 0 THEN EmptyMap
        ELSE IF nF = 0 THEN EmptyMap
        ELSE IF nU = 0 THEN EmptyMap
        ELSE [f \in FeatureSet |-> weights[CHOOSE j \in 1..NumFeatures : FEATURES[j] = f]]

(***************************************************************************)
(* main, command "analyze": combine, threshold, build and print.           *)
(***************************************************************************)
UNKNOWN == Str(<<"Unknown">>)

DETECTION_METHOD == "Combined (Isolation Forest + LOF)"

CombinedAnomalies(isoFlags, lofFlags) ==
    [i \in 1..Len(isoFlags) |-> IF isoFlags[i] = 1 \/ lofFlags[i] = 1 THEN 1 ELSE 0]

CombinedScoresNoAbs(isoScores, lofScores) ==
    [i \in 1..Len(isoScores) |-> (isoScores[i] + lofScores[i]) \div 2]

CombinedScores(isoScores, lofScores) ==
    [i \in 1..Len(isoScores) |-> (Abs(isoScores[i]) + Abs(lofScores[i])) \div 2]

ThresholdAnomalies(scores, threshold) ==
    [i \in 1..Len(scores) |-> IF scores[i] > threshold THEN 1 ELSE 0]

DictGet(record, key, default) == IF record[key].t = "absent" THEN default ELSE record[key]

\* One entry of the anomalies list; record_index counts from 0.
ResultEntry(d, i, score) ==
    [record_index |-> i - 1,
     record_id |-> DictGet(d[i], "id", Num(i - 1)),
     corp_name |-> DictGet(d[i], "corpName", UNKNOWN),
     corp_id |-> DictGet(d[i], "corpId", UNKNOWN),
     anomaly_score |-> score,
     detection_method |-> DETECTION_METHOD,
     record_data |-> d[i]]

\* results.sort(key=anomaly_score, reverse=True): stable, highest first.
\* An entry goes behind every entry of a higher score and every earlier
\* entry of the same score.
SortByScore(s) == StableSortDesc(s, [i \in 1..Len(s) |-> s[i].anomaly_score])

AnalyzeResults(d, isoRun, lofRun, threshold) ==
    LET scores == CombinedScores(isoRun.scores, lofRun.scores)
        flags == ThresholdAnomalies(scores, threshold)
        n == Min(Len(d), Len(scores))
        entries == [i \in 1..n |-> ResultEntry(d, i, scores[i])]
    IN  SortByScore(FilterSeq(entries, [i \in 1..n |-> flags[i] = 1]))

AnalyzeResponseThresholded(d, M, isoRun, lofRun, r) ==
    LET results == AnalyzeResults(d, isoRun, lofRun, r.anomaly_threshold)
        scores == CombinedScores(isoRun.scores, lofRun.scores)
    IN  [success |-> TRUE,
         total_records |-> Len(d),
         anomalies_detected |-> Len(results),
         anomaly_rate |-> IF Len(d) > 0 THEN <<Len(results), Len(d)>> ELSE <<0, 1>>,
         parameters_used |-> [contamination |-> r.contamination,
                              n_neighbors |-> r.n_neighbors,
                              anomaly_threshold |-> r.anomaly_threshold],
         feature_importance |->
             calculate_feature_importance(ThresholdAnomalies(scores, r.anomaly_threshold), M),
         anomalies |-> results]

AnalyzeResponse(d, M, isoRun, lofRun, r) ==
    LET results == AnalyzeResults(d, isoRun, lofRun, r.anomaly_threshold)
        combined_anomalies == CombinedAnomalies(isoRun.anomalies, lofRun.anomalies)
    IN  [success |-> TRUE,
         total_records |-> Len(d),
         anomalies_detected |-> Len(results),
         anomaly_rate |-> IF Len(d) > 0 THEN <<Len(results), Len(d)>> ELSE <<0, 1>>,
         parameters_used |-> [contamination |-> r.contamination,
                              n_neighbors |-> r.n_neighbors,
                              anomaly_threshold |-> r.anomaly_threshold],
         feature_importance |-> calculate_feature_importance(combined_anomalies, M),
         anomalies |-> results]

AnalyzeRespond ==
    /\ pc = "combine"
    /\ stdout' = Append(stdout, AnalyzeResponse(data, scaled_data, iso, lof, req))
    /\ exit_code' = 0
    /\ pc' = "exited"
    /\ UNCHANGED <<argv, stdin, input, data, req, X, scaled_data, iso, lof, lime,
                   explanation, transformed, log>>

(***************************************************************************)
(* Requests.                                                               *)
(***************************************************************************)
Doc(d, cont, nn, thr, idx, score, style) ==
    [data |-> d, contamination |-> cont, n_neighbors |-> nn, anomaly_threshold |-> thr,
     record_index |-> idx, anomaly_score |-> score, explanation_style |-> style]

ObjectIn(doc) == [kind |-> "object", doc |-> doc]

Blank ==
    /\ pc = "start"
    /\ input = <<>>
    /\ data = <<>>
    /\ req = NoReq
    /\ X = <<>>
    /\ scaled_data = <<>>
    /\ iso = NoDetector
    /\ lof = NoDetector
    /\ lime = NoLime
    /\ explanation = NoExplanation
    /\ transformed = <<>>
    /\ log = <<>>
    /\ stdout = <<>>
    /\ exit_code = -1

\* A record with one field set and every other feature at a filler value.
OneField(f, v, filler) ==
    [k \in Keys |-> IF k = f THEN v ELSE IF k \in FeatureSet THEN filler ELSE Absent]

RECURSIVE StringsUpTo(_)
StringsUpTo(n) ==
    IF n = 0 THEN {<<>>}
    ELSE LET shorter == StringsUpTo(n - 1)
         IN  shorter \cup {Append(s, c) : s \in shorter, c \in Chars}

CurrencyExample == <<"$", "1", ",", "2", "3", "4", ".", "5", "6">>

RawValues ==
    {Absent, Null, JsonList, Num(0), Num(-FUnit), Num(2 * FUnit)}
        \cup {Str(s) : s \in StringsUpTo(MaxStrLen) \cup {CurrencyExample}}

\* The other records of a request, which decide the dtype of the column.
ContextRecords(f) ==
    {OneField(f, Num(FUnit), Absent), OneField(f, Str(<<"x">>), Num(FUnit)),
     OneField(f, Absent, Absent)}

InitNormalize ==
    /\ Blank
    /\ argv = "analyze"
    /\ \E f \in FeatureSet, v \in RawValues, filler \in {Absent, Num(FUnit)} :
         \E rest \in {<<>>} \cup {<<c>> : c \in ContextRecords(f)} :
            stdin = ObjectIn(Doc(<<OneField(f, v, filler)>> \o rest, {}, {}, {}, {}, {}, {}))

NextNormalize == AnalyzeRead \/ Preprocess

SpecNormalize == InitNormalize /\ [][NextNormalize]_vars


(***************************************************************************)
(* Number formatting: Python's format specs ',.2f' and '.1f' and str() of  *)
(* a float.  Ties round to even.                                           *)
(***************************************************************************)
DigitChar(d) ==
    CASE d = 0 -> "0" [] d = 1 -> "1" [] d = 2 -> "2" [] d = 3 -> "3" [] d = 4 -> "4"
      [] d = 5 -> "5" [] d = 6 -> "6" [] d = 7 -> "7" [] d = 8 -> "8" [] d = 9 -> "9"

\* round(num / den) for num >= 0, den > 0
RoundHalfEven(num, den) ==
    LET q == num \div den
        r == num % den
    IN  IF 2 * r > den \/ (2 * r = den /\ q % 2 = 1) THEN q + 1 ELSE q

RECURSIVE DigitsOf(_)
DigitsOf(n) == IF n < 10 THEN <<DigitChar(n)>> ELSE Append(DigitsOf(n \div 10), DigitChar(n % 10))

\* the last `width` digits of n, zero-padded
RECURSIVE PaddedDigits(_, _)
PaddedDigits(n, width) ==
    IF width = 0 THEN <<>> ELSE Append(PaddedDigits(n \div 10, width - 1), DigitChar(n % 10))

RECURSIVE Grouped(_)
Grouped(n) ==
    IF n < 1000 THEN DigitsOf(n) ELSE Grouped(n \div 1000) \o <<",">> \o PaddedDigits(n % 1000, 3)

\* format(v / 10^from, ',.{to}f') or '.{to}f'
FormatFixed(v, from, to, grouping) ==
    LET mag == IF from >= to THEN RoundHalfEven(Abs(v), Pow10(from - to))
               ELSE Abs(v) * Pow10(to - from)
        whole == mag \div Pow10(to)
    IN  (IF v < 0 THEN <<"-">> ELSE <<>>)
            \o (IF grouping THEN Grouped(whole) ELSE DigitsOf(whole))
            \o (IF to > 0 THEN <<".">> \o PaddedDigits(mag % Pow10(to), to) ELSE <<>>)

RECURSIVE TrimZeros(_)
TrimZeros(ds) ==
    IF Len(ds) > 1 /\ ds[Len(ds)] = "0" THEN TrimZeros(SubSeq(ds, 1, Len(ds) - 1)) ELSE ds

\* str(x) of a float: the shortest decimal, at least one fractional digit
StrOfFloat(v) ==
    (IF v < 0 THEN <<"-">> ELSE <<>>)
        \o DigitsOf(Abs(v) \div FUnit)
        \o <<".">>
        \o TrimZeros(IF Decimals = 0 THEN <<"0">> ELSE PaddedDigits(Abs(v) % FUnit, Decimals))

(***************************************************************************)
(* _generate_business_context                                              *)
(***************************************************************************)
feature_display_names ==
    [f \in FeatureSet |->
        CASE f = "taxableIncome" -> "Taxable Income"
          [] f = "salary" -> "Total Payroll"
          [] f = "revenue" -> "Total Revenue"
          [] f = "amountTaxable" -> "Amount Taxable"
          [] f = "bubblegumTax" -> "Bubblegum Tax"
          [] f = "confectionarySalesTaxPercent" -> "Sales Tax Rate"]

DisplayName(feature_name) ==
    IF feature_name \in FeatureSet THEN feature_display_names[feature_name] ELSE feature_name

\* display_name.lower()
Lower(name) ==
    CASE name = "Taxable Income" -> "taxable income"
      [] name = "Total Payroll" -> "total payroll"
      [] name = "Total Revenue" -> "total revenue"
      [] name = "Amount Taxable" -> "amount taxable"
      [] name = "Bubblegum Tax" -> "bubblegum tax"
      [] name = "Sales Tax Rate" -> "sales tax rate"
      [] OTHER -> name

CurrencyFeatures == {"taxableIncome", "salary", "revenue", "amountTaxable", "bubblegumTax"}

NOT_REPORTED == <<"Not reported">>

\* value > 0 is false of NaN
FormattedValue(feature_name, value) ==
    IF feature_name \in CurrencyFeatures
    THEN IF ~value.nan /\ value.v > 0
         THEN <<"$">> \o FormatFixed(value.v, Decimals, 2, TRUE) ELSE NOT_REPORTED
    ELSE IF feature_name = "confectionarySalesTaxPercent"
    THEN IF ~value.nan /\ value.v > 0
         THEN FormatFixed(value.v, Decimals, 1, FALSE) \o <<"%">> ELSE NOT_REPORTED
    ELSE IF value.nan THEN <<"nan">> ELSE StrOfFloat(value.v)

ContextSentenceZeroSuspicious(display_name, value, contribution) ==
    IF contribution >= 0
    THEN IF ~value.nan /\ value.v = 0
         THEN <<"Missing ", Lower(display_name), " data raises audit concerns">>
         ELSE <<"This ", Lower(display_name), " value contributes to anomaly detection">>
    ELSE IF ~value.nan /\ value.v = 0
         THEN <<"Missing ", Lower(display_name), " data is consistent with some companies">>
         ELSE <<"This ", Lower(display_name), " value appears typical">>

ContextSentence(display_name, value, contribution) ==
    IF contribution > 0
    THEN IF ~value.nan /\ value.v = 0
         THEN <<"Missing ", Lower(display_name), " data raises audit concerns">>
         ELSE <<"This ", Lower(display_name), " value contributes to anomaly detection">>
    ELSE IF ~value.nan /\ value.v = 0
         THEN <<"Missing ", Lower(display_name), " data is consistent with some companies">>
         ELSE <<"This ", Lower(display_name), " value appears typical">>

generate_business_context(feature_name, value, contribution) ==
    [display_name |-> DisplayName(feature_name),
     formatted_value |-> FormattedValue(feature_name, value),
     context |-> ContextSentence(DisplayName(feature_name), value, contribution)]

(***************************************************************************)
(* LIME's as_list(): pairs <<label, weight>>.  A label is the sequence of  *)
(* its space-separated parts: <<"salary">> from the continuous explainer,  *)
(* <<"salary", " <= ", "q">>, <<"salary", " > ", "q">> or                  *)
(* <<"q", " < ", "salary", " <= ", "q">> from the discretizing one.        *)
(***************************************************************************)
\* contrib[0].split(' ')[0] if ' ' in contrib[0] else contrib[0]
BaseFeature(label) == label[1]

FeatureIndex(f) == CHOOSE j \in 1..NumFeatures : FEATURES[j] = f

(***************************************************************************)
(* _transform_feature_names.  Cut points are 100-fold, values are not.     *)
(***************************************************************************)
PercentileNameStrict(base_feature, value, percentiles) ==
    IF 100 * value > percentiles[7] THEN <<base_feature, " (99th percentile)">>
    ELSE IF 100 * value > percentiles[6] THEN <<base_feature, " (95th percentile)">>
    ELSE IF 100 * value > percentiles[5] THEN <<base_feature, " (90th percentile)">>
    ELSE IF 100 * value > percentiles[4] THEN <<base_feature, " (75th percentile)">>
    ELSE IF 100 * value > percentiles[3] THEN <<base_feature, " (median)">>
    ELSE IF 100 * value > percentiles[2] THEN <<base_feature, " (25th percentile)">>
    ELSE <<base_feature, " (bottom 25%)">>

PercentileName(base_feature, value, percentiles) ==
    IF 100 * value >= percentiles[7] THEN <<base_feature, " (99th percentile)">>
    ELSE IF 100 * value >= percentiles[6] THEN <<base_feature, " (95th percentile)">>
    ELSE IF 100 * value >= percentiles[5] THEN <<base_feature, " (90th percentile)">>
    ELSE IF 100 * value >= percentiles[4] THEN <<base_feature, " (75th percentile)">>
    ELSE IF 100 * value >= percentiles[3] THEN <<base_feature, " (median)">>
    ELSE IF 100 * value >= percentiles[2] THEN <<base_feature, " (25th percentile)">>
    ELSE <<base_feature, " (bottom 25%)">>

QuartileName(base_feature, value, quartiles) ==
    IF 100 * value >= quartiles[3] THEN <<base_feature, " (Q4 - High)">>
    ELSE IF 100 * value >= quartiles[2] THEN <<base_feature, " (Q3 - Above Average)">>
    ELSE IF 100 * value >= quartiles[1] THEN <<base_feature, " (Q2 - Below Average)">>
    ELSE <<base_feature, " (Q1 - Low)">>

\* (value - mean) / std in tenths, 0 if std is 0
StdDeviations(value, stats) ==
    IF stats.std > 0
    THEN LET num == 10 * (value * stats.mean[2] - stats.mean[1])
             den == stats.mean[2] * stats.std
         IN  Sgn(num) * RoundHalfEven(Abs(num), den)
    ELSE 0

StdDevName(base_feature, value, stats) ==
    LET std_deviations == StdDeviations(value, stats)
        shown == FormatFixed(std_deviations, 1, 1, FALSE)
    IN  IF std_deviations >= 20 THEN <<base_feature, " (+">> \o shown \o <<" std)">>
        ELSE IF std_deviations >= 10 THEN <<base_feature, " (+">> \o shown \o <<" std)">>
        ELSE IF std_deviations >= 0 THEN <<base_feature, " (+">> \o shown \o <<" std)">>
        ELSE IF std_deviations >= -10 THEN <<base_feature, " (">> \o shown \o <<" std)">>
        ELSE <<base_feature, " (">> \o shown \o <<" std)">>

TransformName(feature_name, X_original, stats, explanation_style) ==
    LET base_feature == BaseFeature(feature_name)
    IN  IF base_feature \in FeatureSet
        THEN LET feature_idx == FeatureIndex(base_feature)
                 value == X_original[feature_idx].v
             IN  IF explanation_style = "percentiles"
                 THEN PercentileName(base_feature, value, stats[feature_idx].percentiles)
                 ELSE IF explanation_style = "quartiles"
                 THEN QuartileName(base_feature, value, stats[feature_idx].quartiles)
                 ELSE IF explanation_style = "std_dev"
                 THEN StdDevName(base_feature, value, stats[feature_idx])
                 ELSE feature_name
        ELSE feature_name

transform_feature_names(feature_contributions, X_original, stats, explanation_style) ==
    [k \in 1..Len(feature_contributions) |->
        <<TransformName(feature_contributions[k][1], X_original, stats, explanation_style),
          feature_contributions[k][2]>>]

(***************************************************************************)
(* main, command "explain": read the request (no record cap).              *)
(***************************************************************************)
DEFAULT_RECORD_INDEX == 0

DEFAULT_STYLE == "thresholds"

ExplainRead ==
    /\ pc = "start"
    /\ argv = "explain"
    /\ IF stdin.kind # "object"
       THEN /\ Uncaught
            /\ UNCHANGED <<input, data, req>>
       ELSE /\ input' = stdin.doc.data
            /\ data' = stdin.doc.data
            /\ req' = [NoReq EXCEPT
                        !.contamination = Get(stdin.doc.contamination, DEFAULT_CONTAMINATION),
                        !.record_index = Get(stdin.doc.record_index, DEFAULT_RECORD_INDEX),
                        !.anomaly_score = Get(stdin.doc.anomaly_score, DEFAULT_ANOMALY_SCORE),
                        !.explanation_style = Get(stdin.doc.explanation_style, DEFAULT_STYLE)]
            /\ pc' = "preprocess"
            /\ UNCHANGED <<stdout, exit_code>>
    /\ UNCHANGED <<argv, stdin, X, scaled_data, iso, lof, lime, explanation, transformed, log>>

(***************************************************************************)
(* explain_anomaly                                                         *)
(***************************************************************************)
\* self.data.iloc[record_index]: a negative index counts from the end
IndexInRange(d, record_index) == record_index >= -Len(d) /\ record_index < Len(d)

RowPosition(d, record_index) ==
    IF record_index >= 0 THEN record_index + 1 ELSE Len(d) + record_index + 1

\* float(str(x).replace('$', '').replace(',', '')) if x is not None else 0.0
OriginalValue(x) ==
    IF x.t = "none" THEN [ok |-> TRUE, val |-> F(0)]
    ELSE IF x.t = "nan" THEN [ok |-> TRUE, val |-> NaN]
    ELSE IF x.t = "num"
         THEN LET p == ParseFloat(RemoveCurrency(StrOfFloat(x.n)))
              IN  [ok |-> p.ok, val |-> F(p.v)]
    ELSE IF x.t = "str"
         THEN LET p == ParseFloat(RemoveCurrency(x.s))
              IN  [ok |-> p.ok, val |-> F(p.v)]
    ELSE [ok |-> FALSE, val |-> F(0)]

OriginalRow(d, position) ==
    [j \in 1..NumFeatures |-> OriginalValue(Cell(d, position, FEATURES[j]))]

\* What one call of the prediction function does to the fitted objects.
anomaly_predictor_refit == <<"scaler.fit_transform", "iso.decision_function">>

anomaly_predictor == <<"scaler.transform", "iso.decision_function">>

\* 1 / (1 + exp(-score)) to first order around 0; the scores of the model
\* stay within 0.2 of it.
Sigmoid(score) == ScoreUnit \div 2 + score \div 4

ContributionEntry(contrib, X_original) ==
    LET base_feature == BaseFeature(contrib[1])
        value == X_original[FeatureIndex(base_feature)]
        context == generate_business_context(base_feature, value, contrib[2])
    IN  [feature |-> base_feature,
         display_name |-> context.display_name,
         formatted_value |-> context.formatted_value,
         contribution |-> contrib[2],
         context |-> context.context,
         raw_value |-> value]

ProcessedContributions(feature_contributions, X_original) ==
    LET kept == FilterSeq(feature_contributions,
                          [k \in 1..Len(feature_contributions) |->
                              BaseFeature(feature_contributions[k][1]) \in FeatureSet])
    IN  StableSortDesc([k \in 1..Len(kept) |-> ContributionEntry(kept[k], X_original)],
                       [k \in 1..Len(kept) |-> Abs(kept[k][2])])

ExplanationData(record_index, anomaly_score, normal, feature_contributions, X_original) ==
    [record_index |-> record_index,
     anomaly_score |-> anomaly_score,
     prediction_probabilities |-> [normal |-> normal, anomaly |-> ScoreUnit - normal],
     feature_contributions |-> ProcessedContributions(feature_contributions, X_original),
     feature_values |-> [f \in FeatureSet |-> X_original[FeatureIndex(f)]]]

\* What explain_instance(...).as_list() may return: one pair per feature,
\* a lead feature of the larger weight after the others.
LimeLabel(f, form) ==
    CASE form = "plain" -> <<f>>
      [] form = "le" -> <<f, " <= ", "q">>
      [] form = "gt" -> <<f, " > ", "q">>
      [] form = "between" -> <<"q", " < ", f, " <= ", "q">>

LimeLists(explanation_style) ==
    LET forms == IF explanation_style = "raw" THEN {"plain"} ELSE {"le", "gt", "between"}
        plain == IF explanation_style = "raw" THEN "plain" ELSE "le"
        others(lead) == FilterSeq(FEATURES, [j \in 1..NumFeatures |-> FEATURES[j] # lead])
    IN  {[k \in 1..NumFeatures |->
            IF k < NumFeatures THEN <<LimeLabel(others(lead)[k], plain), rest>>
            ELSE <<LimeLabel(lead, form), weight>>] :
         lead \in {"salary", "confectionarySalesTaxPercent"}, form \in forms,
         weight \in {-2 * (ScoreUnit \div 10), 2 * (ScoreUnit \div 10)},
         rest \in {0, -(ScoreUnit \div 10)}}

ExplainAnomaly ==
    /\ pc = "explain"
    /\ lime.ready
    /\ IF ~IndexInRange(data, req.record_index)
       THEN /\ Caught("single positional indexer is out-of-bounds")
            /\ UNCHANGED <<explanation, log>>
       ELSE IF \E f \in FeatureSet : ~ColumnExists(data, f)
       THEN /\ Caught("not in index")
            /\ UNCHANGED <<explanation, log>>
       ELSE LET row == OriginalRow(data, RowPosition(data, req.record_index))
                X_original == [j \in 1..NumFeatures |-> row[j].val]
            IN  IF \E j \in 1..NumFeatures : ~row[j].ok
                THEN /\ Caught("could not convert string to float")
                     /\ UNCHANGED <<explanation, log>>
                ELSE /\ log' = log \o <<"explainer.explain_instance">> \o anomaly_predictor
                     /\ \/ /\ Caught("explainer error")
                           /\ explanation' = [explanation EXCEPT !.X_original = X_original]
                        \/ \E as_list \in LimeLists(req.explanation_style) :
                              /\ explanation' = [X_original |-> X_original,
                                                 feature_contributions |-> as_list]
                              /\ stdout' = Append(stdout,
                                    [success |-> TRUE,
                                     explanation |->
                                        ExplanationData(
                                            req.record_index, req.anomaly_score,
                                            Sigmoid(iso.scores[RowPosition(data, req.record_index)]),
                                            as_list, X_original)])
                              /\ exit_code' = 0
                              /\ pc' = "exited"
    /\ UNCHANGED <<argv, stdin, input, data, req, X, scaled_data, iso, lof, lime, transformed>>

(***************************************************************************)
(* _transform_feature_names applied to an attribution list, for a record   *)
(* whose salary is one of the column's values or one of its cut points.    *)
(***************************************************************************)
SalaryIndex == FeatureIndex("salary")

SalaryCandidates ==
    {X[i][SalaryIndex].v : i \in 1..Len(X)}
        \cup {c \div 100 : c \in {lime.stats[SalaryIndex].percentiles[k] : k \in 1..7}
                                    \cup {lime.stats[SalaryIndex].quartiles[k] : k \in 1..3}}

TransformFeatureNames ==
    /\ pc = "explain"
    /\ lime.ready
    /\ \E as_list \in LimeLists(DEFAULT_STYLE), i \in 1..Len(X), v \in SalaryCandidates :
          LET X_original == [X[i] EXCEPT ![SalaryIndex] = F(v)]
          IN  /\ explanation' = [X_original |-> X_original, feature_contributions |-> as_list]
              /\ transformed' = transform_feature_names(as_list, X_original, lime.stats,
                                                        req.explanation_style)
    /\ pc' = "transformed"
    /\ UNCHANGED <<argv, stdin, input, data, req, X, scaled_data, iso, lof, lime, log,
                   stdout, exit_code>>

(***************************************************************************)
(* The analyze flow on short requests of every shape and on long requests  *)
(* around the record cap.                                                  *)
(***************************************************************************)
Identified(record, k) ==
    [record EXCEPT !["id"] = Num(k), !["corpName"] = Str(<<"A", "c", "m", "e">>),
                   !["corpId"] = Str(<<"C", "1">>)]

\* A record of the given salary and revenue, every other feature 1.0.
Company(salary, revenue) ==
    [OneField("salary", Num(salary * FUnit), Num(FUnit)) EXCEPT !["revenue"] = Num(revenue * FUnit)]

AnalyzeRecords ==
    {Company(0, 2), Company(1, 1), Identified(Company(2, 0), 7),
     OneField("salary", Absent, Num(FUnit))}

RECURSIVE SeqsUpTo(_, _)
SeqsUpTo(S, n) ==
    IF n = 0 THEN {<<>>}
    ELSE LET shorter == SeqsUpTo(S, n - 1)
         IN  shorter \cup {Append(s, e) : s \in {t \in shorter : Len(t) = n - 1}, e \in S}

\* n records, all alike but those at the positions `marked`.
LongData(n, marked) ==
    [i \in 1..n |-> IF i \in marked THEN Identified(Company(2, 0), i) ELSE Company(1, 1)]

LongRequests ==
    {LongData(n, marked) : n \in (RECORD_CAP - CapMargin)..(RECORD_CAP + CapMargin),
                           marked \in SUBSET {RECORD_CAP, RECORD_CAP + 1}}

\* absent (0.5), 0.575 and 1.0
Thresholds == {{}, {575 * (ScoreUnit \div 1000)}, {ScoreUnit}}

InitAnalyze ==
    /\ Blank
    /\ argv = "analyze"
    /\ \/ \E d \in SeqsUpTo(AnalyzeRecords, MaxRecords), thr \in Thresholds,
             cont \in {{}, {70}}, nn \in {{}, {5}} :
            stdin = ObjectIn(Doc(d, cont, nn, thr, {}, {}, {}))
       \/ \E d \in LongRequests :
            stdin = ObjectIn(Doc(d, {}, {}, {}, {}, {}, {}))

NextAnalyze ==
    \/ AnalyzeRead
    \/ Preprocess
    \/ RunIsolationForest
    \/ RunLocalOutlierFactor
    \/ SetupLime
    \/ AnalyzeRespond

SpecAnalyze == InitAnalyze /\ [][NextAnalyze]_vars


(***************************************************************************)
(* Properties of the analyze flow.                                         *)
(***************************************************************************)
Exited == pc = "exited"

AnalyzeSucceeded == Exited /\ argv = "analyze" /\ Len(stdout) = 1 /\ stdout[1].success

Listed(response, i) ==
    \E k \in 1..Len(response.anomalies) : response.anomalies[k].record_index = i - 1

\* C1: in a successful analyze response, row i has an entry in the anomalies
\* list exactly when (|scoreA[i]| + |scoreB[i]|) / 2 > anomaly_threshold,
\* whatever the two detectors' flags are.
C1_ListedIffAboveThreshold ==
    AnalyzeSucceeded =>
        \A i \in 1..Len(data) :
            Listed(stdout[1], i)
                <=> Abs(iso.scores[i]) + Abs(lof.scores[i]) > 2 * req.anomaly_threshold

\* A row flagged by both detectors is left out and a row flagged by neither
\* is listed.
C1_FlaggedRowExcluded ==
    /\ AnalyzeSucceeded
    /\ \E i \in 1..Len(data) :
          iso.anomalies[i] = 1 /\ lof.anomalies[i] = 1 /\ ~Listed(stdout[1], i)
    /\ \E i \in 1..Len(data) :
          iso.anomalies[i] = 0 /\ lof.anomalies[i] = 0 /\ Listed(stdout[1], i)

OrFlagged == {i \in 1..Len(data) : iso.anomalies[i] = 1 \/ lof.anomalies[i] = 1}

OrUnflagged == (1..Len(data)) \ OrFlagged

SumOver(rows, j) == SumSeq([i \in 1..Len(scaled_data) |->
                               IF i \in rows THEN scaled_data[i][j].v ELSE 0])

\* Some feature's mean over the flagged rows is not its mean over the others.
MeansDiffer ==
    \E j \in 1..NumFeatures :
        SumOver(OrFlagged, j) * Cardinality(OrUnflagged)
            # SumOver(OrUnflagged, j) * Cardinality(OrFlagged)

WeightsNonNegative(fi) == \A f \in DOMAIN fi : fi[f][1] >= 0 /\ fi[f][2] > 0

\* the weights share their denominator
WeightsSumToOne(fi) ==
    /\ DOMAIN fi = FeatureSet
    /\ \A f \in FeatureSet : fi[f][2] = fi[FEATURES[1]][2]
    /\ SumSeq([j \in 1..NumFeatures |-> fi[FEATURES[j]][1]]) = fi[FEATURES[1]][2]

\* C2 as stated: the weights are non-negative and sum to 1 whenever a
\* flagged and an unflagged row exist, and the mapping is empty otherwise.
C2_WeightsSumToOneOrEmpty ==
    AnalyzeSucceeded =>
        IF OrFlagged # {} /\ OrUnflagged # {}
        THEN WeightsNonNegative(stdout[1].feature_importance)
             /\ WeightsSumToOne(stdout[1].feature_importance)
        ELSE DOMAIN stdout[1].feature_importance = {}

\* C2 amended: the weights are non-negative; they sum to 1 when a flagged
\* and an unflagged row exist and their means differ in some feature; all
\* six are 0 when those means agree in every feature; the mapping is empty
\* when no row is flagged or none is unflagged.
C2_WeightsSumToOneIfMeansDiffer ==
    AnalyzeSucceeded =>
        LET fi == stdout[1].feature_importance
        IN  IF OrFlagged = {} \/ OrUnflagged = {} THEN DOMAIN fi = {}
            ELSE /\ WeightsNonNegative(fi)
                 /\ DOMAIN fi = FeatureSet
                 /\ IF MeansDiffer THEN WeightsSumToOne(fi)
                    ELSE \A f \in FeatureSet : fi[f][1] = 0

\* Both cases of the weights contract: flagged and unflagged rows whose means
\* differ in two features.
C2_TwoFeaturesWeighted ==
    /\ AnalyzeSucceeded
    /\ OrFlagged # {} /\ OrUnflagged # {}
    /\ Cardinality({f \in FeatureSet : stdout[1].feature_importance[f][1] > 0}) >= 2

OtherThresholds == {Get(t, DEFAULT_THRESHOLD) : t \in Thresholds}

WithThreshold(t) ==
    AnalyzeResponse(data, scaled_data, iso, lof, [req EXCEPT !.anomaly_threshold = t])

\* C3: the request that differs from this one only in anomaly_threshold gets
\* the same feature_importance map.
C3_ThresholdIndependence ==
    AnalyzeSucceeded =>
        \A t \in OtherThresholds :
            WithThreshold(t).feature_importance = stdout[1].feature_importance

\* Two thresholds that give different anomalies lists and one non-empty
\* feature_importance.
C3_ListsDiffer ==
    /\ AnalyzeSucceeded
    /\ DOMAIN stdout[1].feature_importance # {}
    /\ \E t \in OtherThresholds : WithThreshold(t).anomalies # stdout[1].anomalies

Processed == SubSeq(input, 1, Min(Len(input), RECORD_CAP))

\* C10: analyze processes the first 100 records only: total_records is
\* min(n, 100), every record_index is below 100 and is the record's position
\* in the input, and the matrix and the scores cover those records alone.
C10_FirstHundredOnly ==
    AnalyzeSucceeded =>
        /\ stdout[1].total_records = Min(Len(input), RECORD_CAP)
        /\ \A k \in 1..Len(stdout[1].anomalies) :
              LET e == stdout[1].anomalies[k]
              IN  /\ e.record_index >= 0 /\ e.record_index < RECORD_CAP
                  /\ e.record_index < Len(input)
                  /\ e.record_data = input[e.record_index + 1]
        /\ X = FeatureMatrix(Processed)
        /\ Len(scaled_data) = Len(Processed)
        /\ Len(iso.scores) = Len(Processed)
        /\ Len(lof.scores) = Len(Processed)

\* More than 100 records, the 101st unlike the others, and a non-empty list.
C10_OverCap ==
    /\ AnalyzeSucceeded
    /\ Len(input) > RECORD_CAP
    /\ input[RECORD_CAP + 1] # input[RECORD_CAP]
    /\ stdout[1].total_records = RECORD_CAP
    /\ stdout[1].anomalies # <<>>

(***************************************************************************)
(* Properties of the Value Normalizer.                                     *)
(***************************************************************************)
\* What the normalizer contract says of one raw field value.
C4_Expected(raw) ==
    IF raw.t \in {"none", "absent"} THEN F(0)
    ELSE IF raw.t = "str"
         THEN LET p == ParseFloat(RemoveCurrency(raw.s))
              IN  IF p.ok THEN F(p.v) ELSE F(0)
    ELSE IF raw.t = "num" THEN F(raw.n)
    ELSE F(0)

Preprocessed == pc \notin {"start", "preprocess"} /\ stdin.kind = "object"

\* C4: preprocess_data never fails and gives, for every record, 6 floats in
\* Feature Set order: 0.0 for None, "", an absent field and an unparseable
\* string; the parsed number for a string; the number itself otherwise.
C4_NormalizerTotal ==
    Preprocessed =>
        /\ ~Exited
        /\ Len(X) = Len(data)
        /\ \A i \in 1..Len(X) :
              /\ Len(X[i]) = NumFeatures
              /\ \A j \in 1..NumFeatures : X[i][j] = C4_Expected(data[i][FEATURES[j]])


(***************************************************************************)
(* The explain flow: the explained record has one field of every raw kind. *)
(***************************************************************************)
MaxExplainRecords == 2

ThousandsExample == <<"$", "1", ",", "0", "0", "0">>

ExplainRaw ==
    {Num(0), Num(-FUnit), Num(2 * FUnit), Null, Absent, JsonList,
     Str(<<>>), Str(<<"x">>), Str(<<"$", "1">>), Str(ThousandsExample)}

ExplainRecords ==
    {OneField("salary", v, Num(FUnit)) : v \in ExplainRaw}
        \cup {OneField("confectionarySalesTaxPercent", v, Num(FUnit)) :
                 v \in {Num(0), Num(-FUnit), Num(75 * (FUnit \div 10))}}
        \cup {OneField("salary", Num(FUnit), Absent)}

ExplainData ==
    {<<>>} \cup {<<r>> \o rest : r \in ExplainRecords,
                 rest \in SeqsUpTo({Company(1, 1), Company(2, 0)}, MaxExplainRecords - 1)}

Styles == {{}, {"raw"}, {"percentiles"}, {"quartiles"}, {"std_dev"}}

InitExplain ==
    /\ Blank
    /\ argv = "explain"
    /\ \E d \in ExplainData, idx \in {{}, {-1}, {MaxExplainRecords}}, style \in Styles :
          stdin = ObjectIn(Doc(d, {}, {}, {}, idx, {}, style))

NextExplain ==
    \/ ExplainRead
    \/ Preprocess
    \/ RunIsolationForest
    \/ SetupLime
    \/ ExplainAnomaly

SpecExplain == InitExplain /\ [][NextExplain]_vars

(***************************************************************************)
(* _transform_feature_names on the profiles of short numeric requests.     *)
(***************************************************************************)
InitStyle ==
    /\ Blank
    /\ argv = "explain"
    /\ \E d \in SeqsUpTo({Company(0, 2), Company(1, 1), Company(2, 0)}, MaxRecords),
          style \in Styles :
          /\ d # <<>>
          /\ stdin = ObjectIn(Doc(d, {}, {}, {}, {}, {}, style))

NextStyle ==
    \/ ExplainRead
    \/ Preprocess
    \/ RunIsolationForest
    \/ SetupLime
    \/ TransformFeatureNames

SpecStyle == InitStyle /\ [][NextStyle]_vars


(***************************************************************************)
(* The command line as a whole: every command, every kind of standard      *)
(* input, both flows on short requests.                                    *)
(***************************************************************************)
NoDoc == Doc(<<>>, {}, {}, {}, {}, {}, {})

MainRecords == {Company(0, 2), Company(1, 1), OneField("salary", Str(<<>>), Num(FUnit))}

InitMain ==
    /\ Blank
    /\ argv \in {"none", "other", "analyze", "explain"}
    /\ \/ stdin \in {[kind |-> "malformed", doc |-> NoDoc], [kind |-> "nonobject", doc |-> NoDoc]}
       \/ \E d \in SeqsUpTo(MainRecords, MaxExplainRecords), cont \in {{}, {70}},
             idx \in {{}, {MaxExplainRecords}}, style \in {{}, {"percentiles"}} :
             stdin = ObjectIn(Doc(d, cont, {}, {}, idx, {}, style))

Next ==
    \/ NoCommand
    \/ UnknownCommand
    \/ AnalyzeRead
    \/ ExplainRead
    \/ Preprocess
    \/ RunIsolationForest
    \/ RunLocalOutlierFactor
    \/ SetupLime
    \/ AnalyzeRespond
    \/ ExplainAnomaly

Spec == InitMain /\ [][Next]_vars

(***************************************************************************)
(* Properties of the failure handling, the explanation and the styles.     *)
(***************************************************************************)
Succeeded ==
    /\ Exited
    /\ Len(stdout) = 1
    /\ "success" \in DOMAIN stdout[1]
    /\ stdout[1].success

ExplainSucceeded == Succeeded /\ argv = "explain"

Entries == stdout[1].explanation.feature_contributions

\* C5: a run of analyze or explain that does not succeed, whatever fails
\* (a malformed request on standard input included), prints exactly one
\* document {success: false, error: message} and exits with code 0.
C5_FailuresCaught ==
    (Exited /\ argv \in {"analyze", "explain"} /\ ~Succeeded) =>
        /\ exit_code = 0
        /\ Len(stdout) = 1
        /\ DOMAIN stdout[1] = {"success", "error"}
        /\ stdout[1].success = FALSE

\* C6: once the detector is fitted and the explained record exists, the
\* explain flow fails only if the explainer does, and a successful response
\* carries as raw_value and in feature_values the normalizer's output for
\* the record at record_index.
C6_RawValuesMatchNormalizer ==
    (Exited /\ argv = "explain" /\ lime.ready /\ IndexInRange(data, req.record_index)) =>
        /\ Len(stdout) = 1
        /\ IF stdout[1].success
           THEN LET normalized == X[RowPosition(data, req.record_index)]
                IN  /\ \A k \in 1..Len(Entries) :
                          Entries[k].raw_value = normalized[FeatureIndex(Entries[k].feature)]
                    /\ \A f \in FeatureSet :
                          stdout[1].explanation.feature_values[f] = normalized[FeatureIndex(f)]
           ELSE stdout[1].error = "explainer error"

\* The formatted value as the narrator's contract words it: "Not reported"
\* for exactly 0, every other value in the feature's number format.
C7_Expected(feature_name, value) ==
    IF value.v = 0 THEN NOT_REPORTED
    ELSE IF feature_name \in CurrencyFeatures
    THEN <<"$">> \o FormatFixed(value.v, Decimals, 2, TRUE)
    ELSE FormatFixed(value.v, Decimals, 1, FALSE) \o <<"%">>

\* C7: the formatted value of a feature is "Not reported" if and only if
\* its value is exactly 0; a nonzero value, negative ones included, is
\* formatted as currency or as a percentage.
C7_NotReportedIffZero ==
    ExplainSucceeded =>
        \A k \in 1..Len(Entries) :
            Entries[k].formatted_value = C7_Expected(Entries[k].feature, Entries[k].raw_value)

StyleApplied == pc = "transformed" /\ req.explanation_style = "percentiles"

SalaryValue == explanation.X_original[SalaryIndex].v

SalaryCuts == lime.stats[SalaryIndex].percentiles

\* The new names of the attributions whose base feature is the salary.
SalaryLabels ==
    {transformed[k][1] : k \in {i \in 1..Len(transformed) :
        BaseFeature(explanation.feature_contributions[i][1]) = "salary"}}

BandNames ==
    <<" (99th percentile)", " (95th percentile)", " (90th percentile)",
      " (75th percentile)", " (median)", " (25th percentile)">>

BandCut(k) == SalaryCuts[8 - k]

FirstBand ==
    LET met == {k \in 1..6 : 100 * SalaryValue >= BandCut(k)}
    IN  IF met = {} THEN " (bottom 25%)"
        ELSE BandNames[CHOOSE k \in met : \A other \in met : k <= other]

\* C8 as stated: under the percentiles style a value equal to p95 is
\* labelled "95th percentile", for every profile.
C8_P95Labelled ==
    (StyleApplied /\ 100 * SalaryValue = SalaryCuts[6]) =>
        \A label \in SalaryLabels : label = <<"salary", " (95th percentile)">>

\* C8: under the percentiles style the label is the first band, in the
\* order 99th, 95th, 90th, 75th, median, 25th, whose cut point the value
\* reaches, else "bottom 25%"; a value equal to p95 is labelled
\* "95th percentile" provided p95 is below p99.
C8_FirstMatchingBand ==
    StyleApplied =>
        \A label \in SalaryLabels :
            /\ label = <<"salary", FirstBand>>
            /\ (100 * SalaryValue = SalaryCuts[6] /\ SalaryCuts[6] < SalaryCuts[7])
                  => label = <<"salary", " (95th percentile)">>

C8_AtP95BelowP99 ==
    /\ StyleApplied
    /\ 100 * SalaryValue = SalaryCuts[6]
    /\ SalaryCuts[6] < SalaryCuts[7]
    /\ SalaryLabels = {<<"salary", " (95th percentile)">>}

RelabelStyles == {"percentiles", "quartiles", "std_dev"}

\* C9: in a successful explain response under the style percentiles,
\* quartiles or std_dev, every attributed feature carries the label the
\* style's transform gives it.
C9_StyleRelabels ==
    (ExplainSucceeded /\ req.explanation_style \in RelabelStyles) =>
        LET named == transform_feature_names(explanation.feature_contributions,
                                             explanation.X_original, lime.stats,
                                             req.explanation_style)
        IN  \A k \in 1..Len(named) :
                BaseFeature(explanation.feature_contributions[k][1]) \in FeatureSet =>
                    \E e \in 1..Len(Entries) :
                        /\ Entries[e].contribution = named[k][2]
                        /\ named[k][1] \in {<<Entries[e].feature>>, <<Entries[e].display_name>>}


(***************************************************************************)
(* Properties of the narrator's context sentence.                          *)
(***************************************************************************)
Templates(name) ==
    [raises |-> <<"Missing ", name, " data raises audit concerns">>,
     contributes |-> <<"This ", name, " value contributes to anomaly detection">>,
     consistent |-> <<"Missing ", name, " data is consistent with some companies">>,
     typical |-> <<"This ", name, " value appears typical">>]

EntryName(e) == Lower(feature_display_names[e.feature])

EntryZero(e) == ~e.raw_value.nan /\ e.raw_value.v = 0

\* C11: the context sentence of every entry is the one of the four
\* templates selected by (contribution > 0, value = 0); a contribution of
\* exactly 0 counts as non-positive, and exactly one template applies.
C11_OneOfFourTemplates ==
    ExplainSucceeded =>
        \A k \in 1..Len(Entries) :
            LET e == Entries[k]
                t == Templates(EntryName(e))
            IN  /\ (e.contribution > 0 /\ EntryZero(e)) => e.context = t.raises
                /\ (e.contribution > 0 /\ ~EntryZero(e)) => e.context = t.contributes
                /\ (e.contribution <= 0 /\ EntryZero(e)) => e.context = t.consistent
                /\ (e.contribution <= 0 /\ ~EntryZero(e)) => e.context = t.typical
                /\ Cardinality({f \in DOMAIN t : t[f] = e.context}) = 1

\* One response with a zero-valued feature of contribution exactly 0,
\* worded as consistent, and a nonzero feature of positive contribution.
C11_ZeroContributionZeroValue ==
    /\ ExplainSucceeded
    /\ \E k \in 1..Len(Entries) :
          /\ Entries[k].contribution = 0
          /\ EntryZero(Entries[k])
          /\ Entries[k].context = Templates(EntryName(Entries[k])).consistent
    /\ \E k \in 1..Len(Entries) :
          /\ Entries[k].contribution > 0
          /\ ~EntryZero(Entries[k])
          /\ Entries[k].context = Templates(EntryName(Entries[k])).contributes


(***************************************************************************)
(* Properties of the order in which the fitted objects are used.           *)
(***************************************************************************)
FitCount == Cardinality({k \in 1..Len(log) : log[k] = "scaler.fit_transform"})

CommandFlow == argv \in {"analyze", "explain"}

====
